---- MODULE Spec2Model ----
(***************************************************************************)
(* TeamCityRESTApiClient (teamcityrestapiclient.py): the locator/parameter *)
(* builder and the endpoint methods of the TeamCity REST client.           *)
(*                                                                         *)
(* One client object is modelled.  Its state is the connection             *)
(* configuration, the two dicts `locators` and `parameters`, the log of    *)
(* HTTP requests handed to the transport (requests.get), and the outcome   *)
(* of the most recent method call (what it returned or raised).            *)
(* Python strings are TLA+ strings; optional values (None or a value) are  *)
(* sequences of length 0 or 1.                                             *)
(***************************************************************************)
EXTENDS Integers, Sequences, FiniteSets, TLC

VARIABLES username, password, host, port, base_url,
          locators, parameters,
          requests, last, result, ncalls, lastSet

vars == <<username, password, host, port, base_url,
          locators, parameters, requests, last, result, ncalls, lastSet>>

config == <<username, password, host, port, base_url>>

(***************************************************************************)
(* Bounds and input domains.                                               *)
(***************************************************************************)
\* number of method calls made on the client in one behaviour
MaxCalls == 3

StatusValues == {"SUCCESS", "FAILURE"}
Flags == {"true", "any"}
Names == {"bt7"}
Numbers == {10, 50}
BuildIds == {42, 123}
Minutes == {30, 1500}
Nows == {[year |-> 2015, month |-> 3, day |-> 1, hour |-> 0, minute |-> 5, second |-> 9],
         [year |-> 2016, month |-> 3, day |-> 1, hour |-> 12, minute |-> 40, second |-> 30]}

None == <<>>
Some(v) == <<v>>

\* constructor arguments and process environment of one construction
Constructions ==
    { [username |-> Some("alice"), password |-> Some("s3cret"),
       server |-> Some("tc.example.org"), port |-> Some(8111),
       TEAMCITY_USER |-> None, TEAMCITY_PASSWORD |-> None,
       TEAMCITY_HOST |-> None, TEAMCITY_PORT |-> None],
      [username |-> None, password |-> None, server |-> None, port |-> None,
       TEAMCITY_USER |-> Some("envuser"), TEAMCITY_PASSWORD |-> Some("envpw"),
       TEAMCITY_HOST |-> Some("envhost"), TEAMCITY_PORT |-> Some("8080")],
      [username |-> Some(""), password |-> None, server |-> None, port |-> Some(0),
       TEAMCITY_USER |-> None, TEAMCITY_PASSWORD |-> None,
       TEAMCITY_HOST |-> None, TEAMCITY_PORT |-> Some("0")] }

(***************************************************************************)
(* Python primitives.                                                      *)
(***************************************************************************)
\* truth value of an optional string: None and "" are false
TruthyStr(x) == x # None /\ x[1] # ""

\* truth value of an optional integer: None and 0 are false
TruthyInt(x) == x # None /\ x[1] # 0

\* a or b, for optional strings
Or(a, b) == IF TruthyStr(a) THEN a ELSE b

Digit(d) == SubSeq("0123456789", d + 1, d + 1)

\* "%d" % n for n >= 0
RECURSIVE FormatD(_)
FormatD(n) == IF n < 10 THEN Digit(n) ELSE FormatD(n \div 10) \o Digit(n % 10)

\* "%s" % x for an optional string (str of None is the word None)
FormatS(x) == IF x = None THEN "None" ELSE x[1]

DigitValue(c) == CHOOSE d \in 0..9 : Digit(d) = c

\* int(s) for a string of decimal digits
RECURSIVE ParseInt(_)
ParseInt(s) == IF Len(s) = 0 THEN 0
               ELSE 10 * ParseInt(SubSeq(s, 1, Len(s) - 1))
                    + DigitValue(SubSeq(s, Len(s), Len(s)))

\* d[k] = v on a dict
SetItem(d, k, v) == [x \in DOMAIN d \cup {k} |-> IF x = k THEN v ELSE d[x]]

EmptyDict == [x \in {} |-> 0]

\* '/'.join(parts)
RECURSIVE Join(_)
Join(parts) == IF Len(parts) = 0 THEN ""
               ELSE IF Len(parts) = 1 THEN parts[1]
               ELSE parts[1] \o "/" \o Join(Tail(parts))

(***************************************************************************)
(* datetime arithmetic and strftime, for set_since_date.                   *)
(***************************************************************************)
IsLeap(y) == (y % 4 = 0 /\ y % 100 # 0) \/ y % 400 = 0

DaysInMonth(y, m) == IF m = 2 THEN (IF IsLeap(y) THEN 29 ELSE 28)
                     ELSE IF m \in {4, 6, 9, 11} THEN 30 ELSE 31

\* the calendar date of day number d (possibly zero or negative) of month m
RECURSIVE Normalize(_, _, _)
Normalize(y, m, d) ==
    IF d >= 1 THEN [year |-> y, month |-> m, day |-> d]
    ELSE IF m = 1 THEN Normalize(y - 1, 12, d + 31)
    ELSE Normalize(y, m - 1, d + DaysInMonth(y, m - 1))

\* t - timedelta(minutes=minutes)
MinusMinutes(t, minutes) ==
    LET total == t.hour * 60 + t.minute - minutes
        days == IF total >= 0 THEN 0 ELSE ((0 - total) + 1439) \div 1440
        rest == total + days * 1440
        date == Normalize(t.year, t.month, t.day - days)
    IN [year |-> date.year, month |-> date.month, day |-> date.day,
        hour |-> rest \div 60, minute |-> rest % 60, second |-> t.second]

Pad2(n) == IF n < 10 THEN "0" \o FormatD(n) ELSE FormatD(n)

\* t.strftime('%Y%m%dT%H%M%S') for a four-digit year
Strftime(t) == FormatD(t.year) \o Pad2(t.month) \o Pad2(t.day) \o "T"
               \o Pad2(t.hour) \o Pad2(t.minute) \o Pad2(t.second)

(***************************************************************************)
(* Construction.                                                           *)
(***************************************************************************)
\* self.port = port or int(os.getenv('TEAMCITY_PORT', 0)) or 80
ResolvePort(c) ==
    LET env == IF c.TEAMCITY_PORT = None THEN 0 ELSE ParseInt(c.TEAMCITY_PORT[1])
    IN IF TruthyInt(c.port) THEN c.port[1] ELSE IF env # 0 THEN env ELSE 80

\* variant: the guest-authentication root of the REST API instead of httpAuth
BaseUrl_guestAuth(h, p) ==
    "http://" \o FormatS(h) \o ":" \o FormatD(p) \o "/guestAuth/app/rest"

\* self.base_url = "http://%s:%d/httpAuth/app/rest" % (self.host, self.port)
BaseUrl(h, p) == "http://" \o FormatS(h) \o ":" \o FormatD(p) \o "/httpAuth/app/rest"

Self == [type |-> "TeamCityRESTApiClient"]

\* how a method call ends: `return v` or an exception of class e propagating
Returned(v) == [kind |-> "return", value |-> v]
Raised(e) == [kind |-> "raise", value |-> [type |-> e]]

NoResponse == [kind |-> "none"]

Init ==
    \E c \in Constructions :
        /\ username = Or(c.username, c.TEAMCITY_USER)
        /\ password = Or(c.password, c.TEAMCITY_PASSWORD)
        /\ host = Or(c.server, c.TEAMCITY_HOST)
        /\ port = ResolvePort(c)
        /\ base_url = BaseUrl(Or(c.server, c.TEAMCITY_HOST), ResolvePort(c))
        /\ locators = EmptyDict
        /\ parameters = EmptyDict
        /\ requests = <<>>
        /\ last = [op |-> "__init__", args |-> <<>>, response |-> NoResponse]
        /\ result = Returned(Self)
        /\ ncalls = 0
        /\ lastSet = EmptyDict

(***************************************************************************)
(* The setters.                                                            *)
(***************************************************************************)
\* one method call by the caller; `response` is what the transport answered
Called(op, args, response) ==
    /\ ncalls < MaxCalls
    /\ ncalls' = ncalls + 1
    /\ last' = [op |-> op, args |-> args, response |-> response]

\* variant: the setter rebinds self.locators to a fresh dict holding its entry
StoreLocator_rebinds(op, arg, key, value) ==
    /\ Called(op, <<arg>>, NoResponse)
    /\ locators' = SetItem(EmptyDict, key, value)
    /\ lastSet' = SetItem(lastSet, key, value)
    /\ result' = Returned(Self)
    /\ UNCHANGED <<config, parameters, requests>>

\* self.locators[key] = value; return self
StoreLocator(op, arg, key, value) ==
    /\ Called(op, <<arg>>, NoResponse)
    /\ locators' = SetItem(locators, key, value)
    /\ lastSet' = SetItem(lastSet, key, value)
    /\ result' = Returned(Self)
    /\ UNCHANGED <<config, parameters, requests>>

\* self.parameters[key] = value; return self
StoreParameter(op, arg, key, value) ==
    /\ Called(op, <<arg>>, NoResponse)
    /\ parameters' = SetItem(parameters, key, value)
    /\ result' = Returned(Self)
    /\ UNCHANGED <<config, locators, requests, lastSet>>

set_count(count) == StoreParameter("set_count", count, "count", count)

set_running(running) == StoreLocator("set_running", running, "running", running)

set_build_type(bt) == StoreLocator("set_build_type", bt, "buildType", bt)

set_tags(tags) == StoreLocator("set_tags", tags, "tags", tags)

set_status(status) == StoreLocator("set_status", status, "status", status)

set_user(user) == StoreLocator("set_user", user, "user", user)

set_personal(personal) == StoreLocator("set_personal", personal, "personal", personal)

set_canceled(canceled) == StoreLocator("set_canceled", canceled, "canceled", canceled)

set_pinned(pinned) == StoreLocator("set_pinned", pinned, "pinned", pinned)

set_branch(branch) == StoreLocator("set_branch", branch, "branch", branch)

set_agent_name(agent_name) ==
    StoreLocator("set_agent_name", agent_name, "agentName", agent_name)

set_since_build(since_build) ==
    StoreLocator("set_since_build", since_build, "sinceBuild", since_build)

\* `now` is the reading of datetime.now() taken by the call
set_since_date(minutes, now) ==
    LET minutes_ago == MinusMinutes(now, minutes)
    IN StoreLocator("set_since_date", minutes, "sinceDate",
                    Strftime(minutes_ago) \o "-0500")

\* variant: start stored as a locator, like the filters around it
set_start_as_locator(start) == StoreLocator("set_start", start, "start", start)

set_start(start) == StoreParameter("set_start", start, "start", start)

set_lookup_limit(lookup_limit) ==
    StoreLocator("set_lookup_limit", lookup_limit, "lookupLimit", lookup_limit)

Setter ==
    \/ \E n \in Numbers : set_count(n)
    \/ \E v \in Flags : set_running(v)
    \/ \E v \in Names : set_build_type(v)
    \/ \E v \in Names : set_tags(v)
    \/ \E v \in StatusValues : set_status(v)
    \/ \E v \in Names : set_user(v)
    \/ set_personal("true")
    \/ set_canceled("true")
    \/ set_pinned("true")
    \/ \E v \in Names : set_branch(v)
    \/ \E v \in Names : set_agent_name(v)
    \/ \E v \in Names : set_since_build(v)
    \/ \E m \in Minutes, now \in Nows : set_since_date(m, now)
    \/ \E n \in Numbers : set_start(n)
    \/ \E n \in Numbers : set_lookup_limit(n)

(***************************************************************************)
(* The transport and get_server_info.                                      *)
(***************************************************************************)
ServerJson == [version |-> "9.0.3 (build 32334)", versionMajor |-> "9",
               versionMinor |-> "0", buildNumber |-> "32334",
               internalId |-> "a1b2", currentTime |-> "20150601T120000-0500",
               startTime |-> "20150530T080910-0500",
               buildDate |-> "20150310T000000-0500"]

\* what requests.get can do with one request: fail, or answer
Responses ==
    { [kind |-> "error", type |-> "ConnectionError"],
      [kind |-> "error", type |-> "Timeout"],
      [kind |-> "http", status |-> 200, body |-> [format |-> "json", value |-> ServerJson]],
      [kind |-> "http", status |-> 200,
       body |-> [format |-> "json", value |-> [version |-> "9.0.3 (build 32334)"]]],
      [kind |-> "http", status |-> 404,
       body |-> [format |-> "html", text |-> "<html><body>404 Not Found</body></html>"]],
      [kind |-> "http", status |-> 401,
       body |-> [format |-> "html", text |-> "<html><body>Unauthorized</body></html>"]] }

\* Session.build_url: '/'.join([str(p) for p in [base_url] + list(args)])
build_url(base, args) == Join(<<base>> \o args)

\* Resource._build_url
_build_url(args) == build_url(base_url, args)

\* the request _get hands to requests.get
_get(url) == [method |-> "GET", url |-> url, params |-> EmptyDict,
              auth |-> <<username, password>>,
              headers |-> [Accept |-> "application/json"]]

\* variant: a body that is not JSON decodes to an empty object
json_lenient(response) ==
    IF response.body.format = "json" THEN Returned(response.body.value)
    ELSE Returned(EmptyDict)

\* response.json(): the decoded body, or ValueError for a body that is not JSON
json(response) ==
    IF response.body.format = "json" THEN Returned(response.body.value)
    ELSE Raised("ValueError")

\* data.get(key)
Get(data, key) == IF key \in DOMAIN data THEN Some(data[key]) ELSE None

\* dateutil.parser.parse of a timestamp YYYYMMDDTHHMMSS+hhmm
Parse(s) ==
    LET sign == IF SubSeq(s, 16, 16) = "-" THEN 0 - 1 ELSE 1
    IN [year |-> ParseInt(SubSeq(s, 1, 4)), month |-> ParseInt(SubSeq(s, 5, 6)),
        day |-> ParseInt(SubSeq(s, 7, 8)), hour |-> ParseInt(SubSeq(s, 10, 11)),
        minute |-> ParseInt(SubSeq(s, 12, 13)), second |-> ParseInt(SubSeq(s, 14, 15)),
        utcoffset |-> sign * (60 * ParseInt(SubSeq(s, 17, 18)) + ParseInt(SubSeq(s, 19, 20)))]

\* ServerInfo(data); parsing an absent timestamp raises, the class of the
\* exception depending on the installed dateutil
ServerInfo(data, parseError) ==
    IF \E k \in {"currentTime", "startTime", "buildDate"} : Get(data, k) = None
    THEN Raised(parseError)
    ELSE Returned([type |-> "ServerInfo", data |-> data,
                   version |-> Get(data, "version"),
                   version_major |-> Get(data, "versionMajor"),
                   version_minor |-> Get(data, "versionMinor"),
                   build_number |-> Get(data, "buildNumber"),
                   internal_id |-> Get(data, "internalId"),
                   current_time |-> Parse(data["currentTime"]),
                   start_time |-> Parse(data["startTime"]),
                   build_date |-> Parse(data["buildDate"])])

get_server_info(response, parseError) ==
    LET url == _build_url(<<"server">>)
        data == json(response)
    IN /\ Called("get_server_info", <<>>, response)
       /\ requests' = Append(requests, _get(url))
       /\ result' = IF response.kind = "error" THEN Raised(response.type)
                    ELSE IF data.kind = "raise" THEN data
                    ELSE ServerInfo(data.value, parseError)
       /\ UNCHANGED <<config, locators, parameters, lastSet>>

(***************************************************************************)
(* The endpoint methods that end in self.set_resource(...).  The class and *)
(* its bases (Resource, object) define no set_resource, so evaluating the  *)
(* attribute raises AttributeError before the argument is formatted and    *)
(* before any request is built.                                            *)
(***************************************************************************)
set_resource(op, args) ==
    /\ Called(op, args, NoResponse)
    /\ result' = Raised("AttributeError")
    /\ UNCHANGED <<config, requests, lastSet>>

get_all_plugins ==
    /\ set_resource("get_all_plugins", <<>>)
    /\ UNCHANGED <<locators, parameters>>

get_all_builds(start, count) ==
    /\ parameters' = SetItem(SetItem(parameters, "start", start), "count", count)
    /\ set_resource("get_all_builds", <<start, count>>)
    /\ UNCHANGED locators

get_all_builds_by_build_type_id(btId, start, count) ==
    /\ parameters' = SetItem(SetItem(parameters, "count", count), "start", start)
    /\ set_resource("get_all_builds_by_build_type_id", <<btId, start, count>>)
    /\ UNCHANGED locators

get_build_by_build_id(bId) ==
    /\ set_resource("get_build_by_build_id", <<bId>>)
    /\ UNCHANGED <<locators, parameters>>

get_all_changes ==
    /\ set_resource("get_all_changes", <<>>)
    /\ UNCHANGED <<locators, parameters>>

get_change_by_change_id(cId) ==
    /\ set_resource("get_change_by_change_id", <<cId>>)
    /\ UNCHANGED <<locators, parameters>>

\* variant: the call starts from a fresh parameter dict
get_changes_by_build_id_resets(bId) ==
    /\ parameters' = SetItem(EmptyDict, "build", "id:" \o FormatD(bId))
    /\ set_resource("get_changes_by_build_id", <<bId>>)
    /\ UNCHANGED locators

get_changes_by_build_id(bId) ==
    /\ parameters' = SetItem(parameters, "build", "id:" \o FormatD(bId))
    /\ set_resource("get_changes_by_build_id", <<bId>>)
    /\ UNCHANGED locators

get_all_build_types ==
    /\ set_resource("get_all_build_types", <<>>)
    /\ UNCHANGED <<locators, parameters>>

get_build_type(btId) ==
    /\ set_resource("get_build_type", <<btId>>)
    /\ UNCHANGED <<locators, parameters>>

get_all_projects ==
    /\ set_resource("get_all_projects", <<>>)
    /\ UNCHANGED <<locators, parameters>>

get_project_by_project_id(pId) ==
    /\ set_resource("get_project_by_project_id", <<pId>>)
    /\ UNCHANGED <<locators, parameters>>

get_agents ==
    /\ set_resource("get_agents", <<>>)
    /\ UNCHANGED <<locators, parameters>>

get_agent_by_agent_id(aId) ==
    /\ set_resource("get_agent_by_agent_id", <<aId>>)
    /\ UNCHANGED <<locators, parameters>>

get_build_statistics_by_build_id(bId) ==
    /\ set_resource("get_build_statistics_by_build_id", <<bId>>)
    /\ UNCHANGED <<locators, parameters>>

get_build_tags_by_build_id(bId) ==
    /\ set_resource("get_build_tags_by_build_id", <<bId>>)
    /\ UNCHANGED <<locators, parameters>>

get_all_vcs_roots ==
    /\ set_resource("get_all_vcs_roots", <<>>)
    /\ UNCHANGED <<locators, parameters>>

get_vcs_root_by_vcs_root_id(vrId) ==
    /\ set_resource("get_vcs_root_by_vcs_root_id", <<vrId>>)
    /\ UNCHANGED <<locators, parameters>>

get_all_users ==
    /\ set_resource("get_all_users", <<>>)
    /\ UNCHANGED <<locators, parameters>>

get_user_by_username(name) ==
    /\ set_resource("get_user_by_username", <<name>>)
    /\ UNCHANGED <<locators, parameters>>

Endpoint ==
    \/ \E r \in Responses, e \in {"TypeError", "AttributeError"} : get_server_info(r, e)
    \/ get_all_plugins
    \/ \E s \in Numbers, c \in Numbers : get_all_builds(s, c)
    \/ \E b \in Names, s \in Numbers, c \in Numbers :
          get_all_builds_by_build_type_id(b, s, c)
    \/ \E b \in BuildIds : get_build_by_build_id(b)
    \/ get_all_changes
    \/ \E c \in BuildIds : get_change_by_change_id(c)
    \/ \E b \in BuildIds : get_changes_by_build_id(b)
    \/ get_all_build_types
    \/ \E b \in Names : get_build_type(b)
    \/ get_all_projects
    \/ \E x \in Names : get_project_by_project_id(x)
    \/ get_agents
    \/ \E a \in BuildIds : get_agent_by_agent_id(a)
    \/ \E b \in BuildIds : get_build_statistics_by_build_id(b)
    \/ \E b \in BuildIds : get_build_tags_by_build_id(b)
    \/ get_all_vcs_roots
    \/ \E x \in Names : get_vcs_root_by_vcs_root_id(x)
    \/ get_all_users
    \/ \E x \in Names : get_user_by_username(x)

Next == Setter \/ Endpoint

Spec == Init /\ [][Next]_vars

(***************************************************************************)
(* Vocabulary of the properties.                                           *)
(***************************************************************************)
LocatorKeys == {"running", "buildType", "tags", "status", "user", "personal",
                "canceled", "pinned", "branch", "agentName", "sinceBuild",
                "sinceDate", "lookupLimit"}

ParameterSetters == {"set_count", "set_start"}

LocatorSetters == {"set_running", "set_build_type", "set_tags", "set_status",
                   "set_user", "set_personal", "set_canceled", "set_pinned",
                   "set_branch", "set_agent_name", "set_since_build",
                   "set_since_date", "set_lookup_limit"}

\* the key each setter is documented to write
KeyOf == [set_count |-> "count", set_start |-> "start", set_running |-> "running",
          set_build_type |-> "buildType", set_tags |-> "tags",
          set_status |-> "status", set_user |-> "user",
          set_personal |-> "personal", set_canceled |-> "canceled",
          set_pinned |-> "pinned", set_branch |-> "branch",
          set_agent_name |-> "agentName", set_since_build |-> "sinceBuild",
          set_since_date |-> "sinceDate", set_lookup_limit |-> "lookupLimit"]

\* endpoints over collections that take a locator (builds, changes)
FilteringEndpoints == {"get_all_builds", "get_all_builds_by_build_type_id",
                       "get_all_changes", "get_changes_by_build_id"}

CallStep == ncalls' = ncalls + 1

SetterStep == CallStep /\ last'.op \in (ParameterSetters \cup LocatorSetters)

EndpointStep == CallStep /\ last'.op \notin (ParameterSetters \cup LocatorSetters)

\* the request issued by the step, when the step issued exactly one
IssuedOne == Len(requests') = Len(requests) + 1

NewRequest == requests'[Len(requests')]

Contains(s, t) == \E i \in 1..(Len(s) - Len(t) + 1) : SubSeq(s, i, i + Len(t) - 1) = t

Occurrences(s, t) ==
    Cardinality({i \in 1..(Len(s) - Len(t) + 1) : SubSeq(s, i, i + Len(t) - 1) = t})

LocatorItem(k, v) == k \o ":" \o (IF k = "lookupLimit" THEN ToString(v) ELSE v)

\* every entry of m is still in m2, with its value unless its key is in `own`
Kept(m, m2, own) ==
    \A k \in DOMAIN m : k \in DOMAIN m2 /\ (k \notin own => m2[k] = m[k])

\* m2 is m with the entry k written and nothing else touched
OnlyWrote(m, m2, k) ==
    /\ DOMAIN m2 = DOMAIN m \cup {k}
    /\ \A j \in DOMAIN m \ {k} : m2[j] = m[j]

(***************************************************************************)
(* C1.  The locators set so far reach the server as one comma-joined       *)
(* expression: a call of a filtering endpoint (builds, changes) issues a   *)
(* request whose URL carries, for exactly the locator keys set, one        *)
(* key:value item each, with the value most recently set, joined by commas.*)
(***************************************************************************)
C1_CombinedLocatorExpression ==
    [][(EndpointStep /\ last'.op \in FilteringEndpoints /\ lastSet # EmptyDict) =>
          /\ IssuedOne
          /\ \A k \in DOMAIN lastSet :
                Occurrences(NewRequest.url, LocatorItem(k, lastSet[k])) = 1
          /\ \A k \in LocatorKeys \ DOMAIN lastSet : ~Contains(NewRequest.url, k \o ":")
          /\ Occurrences(NewRequest.url, ",") = Cardinality(DOMAIN lastSet) - 1]_vars

\* the locator dict itself holds exactly the keys set, with the latest values
LocatorsHoldLatest == locators = lastSet

(***************************************************************************)
(* C2.  count and start are only ever parameters and the locator keys are  *)
(* only ever locators: set_count and set_start leave their value in the    *)
(* parameter mapping, `count` and `start` are never keys of the locator    *)
(* mapping, and no locator key is ever a key of the parameter mapping.     *)
(***************************************************************************)
C2_Routing ==
    /\ DOMAIN locators \cap {"count", "start"} = {}
    /\ DOMAIN parameters \cap LocatorKeys = {}
    /\ last.op \in ParameterSetters =>
          /\ KeyOf[last.op] \in DOMAIN parameters
          /\ parameters[KeyOf[last.op]] = last.args[1]
    /\ last.op \in LocatorSetters => KeyOf[last.op] \in DOMAIN locators

C2_Witness ==
    /\ last.op = "set_start"
    /\ {"count", "start"} \subseteq DOMAIN parameters
    /\ locators # EmptyDict

(***************************************************************************)
(* C3.  Every setter returns the client it was called on and writes only   *)
(* the entry of its own key in its own mapping; the other entries of that  *)
(* mapping, the other mapping and the connection configuration are left    *)
(* as they were.                                                           *)
(***************************************************************************)
C3_SetterFrame ==
    [][SetterStep =>
          /\ result' = Returned(Self)
          /\ config' = config
          /\ IF last'.op \in ParameterSetters
             THEN locators' = locators
                  /\ OnlyWrote(parameters, parameters', KeyOf[last'.op])
             ELSE parameters' = parameters
                  /\ OnlyWrote(locators, locators', KeyOf[last'.op])]_vars

C3_Witness ==
    /\ last.op \in LocatorSetters
    /\ Cardinality(DOMAIN locators) >= 2
    /\ parameters # EmptyDict
    /\ result = Returned(Self)

(***************************************************************************)
(* C4.  get_all_builds(start=s, count=c) returns a result, having          *)
(* requested the resource path builds/ with the query start=s and count=c. *)
(***************************************************************************)
C4_GetAllBuilds ==
    [][(CallStep /\ last'.op = "get_all_builds") =>
          /\ result'.kind = "return"
          /\ IssuedOne
          /\ \/ /\ NewRequest.url = base_url \o "/builds/"
                /\ NewRequest.params = [start |-> last'.args[1], count |-> last'.args[2]]
             \/ NewRequest.url = base_url \o "/builds/?start=" \o ToString(last'.args[1])
                                    \o "&count=" \o ToString(last'.args[2])]_vars

(***************************************************************************)
(* C5.  get_build_by_build_id(b) requests the resource path builds/id:b    *)
(* with no query parameters and without any accumulated locator.           *)
(***************************************************************************)
C5_GetBuildByBuildId ==
    [][(CallStep /\ last'.op = "get_build_by_build_id") =>
          /\ IssuedOne
          /\ NewRequest.url = base_url \o "/builds/id:" \o ToString(last'.args[1])
          /\ NewRequest.params = EmptyDict]_vars

(***************************************************************************)
(* C6.  get_changes_by_build_id(b) requests the resource path changes with *)
(* the query parameter build=id:b.                                         *)
(***************************************************************************)
C6_GetChangesByBuildId ==
    [][(CallStep /\ last'.op = "get_changes_by_build_id") =>
          /\ IssuedOne
          /\ \/ /\ NewRequest.url = base_url \o "/changes"
                /\ "build" \in DOMAIN NewRequest.params
                /\ NewRequest.params["build"] = "id:" \o ToString(last'.args[1])
             \/ NewRequest.url = base_url \o "/changes?build=id:" \o ToString(last'.args[1])]_vars

(***************************************************************************)
(* C7.  Every endpoint call issues exactly one HTTP GET, with basic        *)
(* authentication by the client's username and password and the header     *)
(* Accept: application/json, and then returns or raises.                   *)
(***************************************************************************)
C7_OneGetPerEndpointCall ==
    [][EndpointStep =>
          /\ IssuedOne
          /\ NewRequest.method = "GET"
          /\ NewRequest.auth = <<username, password>>
          /\ NewRequest.headers = [Accept |-> "application/json"]
          /\ result'.kind \in {"return", "raise"}]_vars

(***************************************************************************)
(* C8.  An endpoint call answered by HTTP 404 with an HTML body raises the *)
(* JSON decode error (ValueError) and returns nothing; one whose transport *)
(* fails raises the transport's own error; either way the locator and      *)
(* parameter mappings are what they were before the call.                  *)
(***************************************************************************)
C8_FailedCallRaises ==
    [][EndpointStep =>
          /\ (/\ last'.response.kind = "http"
              /\ last'.response.status = 404
              /\ last'.response.body.format = "html") =>
                 /\ result' = Raised("ValueError")
                 /\ locators' = locators
                 /\ parameters' = parameters
          /\ last'.response.kind = "error" =>
                 /\ result' = Raised(last'.response.type)
                 /\ locators' = locators
                 /\ parameters' = parameters]_vars

C8_Witness ==
    /\ last.op = "get_server_info"
    /\ last.response.kind = "http"
    /\ last.response.status = 404
    /\ result.kind = "raise"
    /\ locators # EmptyDict
    /\ parameters # EmptyDict

(***************************************************************************)
(* C9.  The base URL is http://<host>:<port>/httpAuth/app/rest for the     *)
(* host and port the client holds, no call changes it (or the host and     *)
(* port), and get_server_info requests the base URL, one slash, `server`.  *)
(***************************************************************************)
C9_BaseUrl ==
    [][/\ base_url = "http://" \o (IF host = None THEN "None" ELSE host[1]) \o ":"
                     \o ToString(port) \o "/httpAuth/app/rest"
       /\ base_url' = base_url
       /\ host' = host
       /\ port' = port
       /\ (CallStep /\ last'.op = "get_server_info") =>
             /\ IssuedOne
             /\ NewRequest.url = base_url \o "/" \o "server"]_vars

C9_Witness ==
    /\ last.op = "get_server_info"
    /\ Len(requests) > 0
    /\ port = 8080
    /\ locators # EmptyDict

(***************************************************************************)
(* C10.  No endpoint call removes or clears an entry of either mapping:    *)
(* the locators are untouched, every parameter stays (overwritten only by  *)
(* the call's own start, count or build), and what get_all_builds and      *)
(* get_changes_by_build_id stored is still there when the next endpoint    *)
(* method is invoked.                                                      *)
(***************************************************************************)
OwnParameters(op) ==
    IF op \in {"get_all_builds", "get_all_builds_by_build_type_id"} THEN {"start", "count"}
    ELSE IF op = "get_changes_by_build_id" THEN {"build"}
    ELSE {}

StoredByLastCall ==
    /\ last.op = "get_all_builds" =>
          /\ {"start", "count"} \subseteq DOMAIN parameters
          /\ parameters["start"] = last.args[1]
          /\ parameters["count"] = last.args[2]
    /\ last.op = "get_changes_by_build_id" =>
          /\ "build" \in DOMAIN parameters
          /\ parameters["build"] = "id:" \o ToString(last.args[1])

C10_MappingsPersist ==
    [][EndpointStep =>
          /\ locators' = locators
          /\ Kept(parameters, parameters', OwnParameters(last'.op))
          /\ StoredByLastCall
          /\ StoredByLastCall']_vars

C10_Witness ==
    /\ last.op = "get_changes_by_build_id"
    /\ {"start", "count", "build"} \subseteq DOMAIN parameters
    /\ locators # EmptyDict

====
